---- MODULE Spec2Model ----
(***************************************************************************)
(* Model of the qodana-docker tooling:                                     *)
(*   dockerfiles.py                  - the Descriptor Compiler             *)
(*   .github/scripts/release-matrix.py - the Matrix Selector               *)
(* Text is modelled as sequences of one-character strings, so that the     *)
(* regular expressions, splitlines/join/rstrip and fnmatch are computed.   *)
(***************************************************************************)
EXTENDS Integers, Sequences, FiniteSets, TLC

VARIABLES
    \* ---- fragment directory (<release_dir>/base) ----
    files,        \* fragment identifier -> content of <identifier>.Dockerfile (existing files only)
    unreadable,   \* fragment identifiers whose open() raises OSError
    \* ---- substitute_from_directives applied to one fragment ----
    request,      \* the fragment whose content is being resolved, or NoRequest
    outcome,      \* result of the call: [kind, text]
    \* ---- dockerfiles.py main(): the release directory and the run ----
    release_dir_ok, \* os.path.isdir(release_dir)
    public_json,  \* <release_dir>/public.json: [state, variants]
    templates,    \* the trailer templates present under base/templates
    out_dirs,     \* variants whose directory <release_dir>/<variant>/ exists
    out_files,    \* variant -> content of <release_dir>/<variant>/Dockerfile (existing files only)
    pc,           \* position of main()
    variants,     \* the loaded manifest, in the order of its keys
    idx,          \* index in variants of the next variant of the for loop
    exit_code,    \* exit status of the process, once pc = "exit"
    uncaught,     \* the exception that left main(), "none" otherwise
    log,          \* records written to the logger: [level, event, variant]
    run,          \* which invocation of the script this is: 1 or 2
    first_run,    \* what invocation 1 left behind: [dirs, files, log, uncaught]
    \* ---- release-matrix.py ----
    target_branch, \* os.getenv("GITHUB_BASE_REF"), Unset for None
    head_sha,     \* os.getenv("GITHUB_SHA"), Unset for None
    tree,         \* entry of the working directory -> names of the entries in it
    dockerfiles,  \* the <<version, product>> whose directory holds a Dockerfile
    todo_versions, \* entries Path(".").glob("*") has not yielded yet
    version_dir,  \* the entry the outer loop is at, NoDir outside the inner loop
    todo_products, \* entries version_dir.glob("*") has not yielded yet
    result,       \* the list of matrix entries
    diff_calls,   \* the git diff runs so far: [range, path, returncode]
    sel_pc,       \* position of the script
    sel_exit_code, \* exit status of the script, once sel_pc = "exit"
    sel_uncaught, \* the exception that ended the script, "none" otherwise
    stdout,       \* [emitted, matrix]: what json.dump wrote to sys.stdout
    stderr        \* [emitted, matrix]: what json.dump wrote to sys.stderr

resolveVars == <<request, outcome>>

fragmentVars == <<files, unreadable>>

releaseVars == <<release_dir_ok, public_json, templates>>

outputVars == <<out_dirs, out_files>>

runVars == <<pc, variants, idx, exit_code, uncaught, log>>

invocationVars == <<run, first_run>>

compilerVars == <<releaseVars, outputVars, runVars, invocationVars>>

envVars == <<target_branch, head_sha, tree, dockerfiles>>

scanVars == <<todo_versions, version_dir, todo_products>>

endVars == <<sel_pc, sel_exit_code, sel_uncaught, stdout, stderr>>

selectorVars == <<envVars, scanVars, result, diff_calls, endVars>>

dockerfilesPyVars == <<fragmentVars, resolveVars, compilerVars>>

vars == <<dockerfilesPyVars, selectorVars>>

(***************************************************************************)
(* Bounds                                                                  *)
(***************************************************************************)
\* depth at which the interpreter gives up a recursion with RecursionError
RecursionLimit == 6

(***************************************************************************)
(* Text helpers                                                            *)
(***************************************************************************)
NL == "\n"

Whitespace == {" ", "\t", NL}

\* a slip: the class of the identifier also takes digits and colons
IdentCharsWithTag == {"F", "R", "O", "M", "U", "N", "a", "b", "c", "x", "-", "1", ":"}

\* [A-Za-z-], of the characters the texts are made of
IdentChars == {"F", "R", "O", "M", "U", "N", "a", "b", "c", "x", "-"}

RECURSIVE IndexOf(_, _, _)
\* index of the first ch of s at or after position k, 0 when none
IndexOf(s, ch, k) ==
    IF k > Len(s) THEN 0
    ELSE IF s[k] = ch THEN k
    ELSE IndexOf(s, ch, k + 1)

RECURSIVE SplitLines(_)
\* str.splitlines(): no empty last line after a final line break
SplitLines(s) ==
    IF s = <<>> THEN <<>>
    ELSE LET k == IndexOf(s, NL, 1)
         IN IF k = 0 THEN <<s>>
            ELSE <<SubSeq(s, 1, k - 1)>> \o SplitLines(SubSeq(s, k + 1, Len(s)))

RECURSIVE JoinLines(_)
\* "\n".join(lines)
JoinLines(lines) ==
    IF lines = <<>> THEN <<>>
    ELSE IF Len(lines) = 1 THEN lines[1]
    ELSE lines[1] \o <<NL>> \o JoinLines(Tail(lines))

RECURSIVE RStrip(_)
\* str.rstrip(): drop trailing whitespace, line breaks included
RStrip(s) ==
    IF s = <<>> THEN <<>>
    ELSE IF s[Len(s)] \in Whitespace THEN RStrip(SubSeq(s, 1, Len(s) - 1))
    ELSE s

RECURSIVE SkipWhile(_, _, _)
\* first position at or after k whose character is outside set
SkipWhile(s, k, set) ==
    IF k <= Len(s) /\ s[k] \in set THEN SkipWhile(s, k + 1, set) ELSE k

NoMatch == <<>>

\* re.compile(r"^(FROM)\s+([A-Za-z-]+)\s*$").match(line): group 2, or NoMatch
PatternMatch(line) ==
    IF Len(line) < 4 \/ SubSeq(line, 1, 4) # <<"F", "R", "O", "M">> THEN NoMatch
    ELSE LET p1 == SkipWhile(line, 5, Whitespace)
             p2 == SkipWhile(line, p1, IdentChars)
             p3 == SkipWhile(line, p2, Whitespace)
         IN IF p1 > 5 /\ p2 > p1 /\ p3 = Len(line) + 1
            THEN SubSeq(line, p1, p2 - 1)
            ELSE NoMatch

(***************************************************************************)
(* .github/scripts/release-matrix.py                                       *)
(***************************************************************************)
PLATFORMS == <<"linux/amd64", "linux/arm64">>

RUNNERS == ("linux/amd64" :> "ubuntu-24.04") @@ ("linux/arm64" :> "ubuntu-24.04-arm")

\* the tuple as the interpreter builds it: the first two literals have no
\* comma between them and are one string
EXCLUDE_PATTERNS ==
    << <<"2", "0", "2", "3", ".", "2", "/", "*",
         "2", "0", "2", "3", ".", "3", "/", "c", "p", "p">>,
       <<"2", "0", "2", "3", ".", "3", "/", "a", "n", "d", "r", "o", "i", "d">>,
       <<"2", "0", "2", "4", ".", "1", "/", "a", "n", "d", "r", "o", "i", "d">>,
       <<"2", "0", "2", "3", ".", "3", "/", "c", "n", "o", "v", "a">>,
       <<"2", "0", "2", "4", ".", "1", "/", "c", "n", "o", "v", "a">>,
       <<"*", "/", "r", "u", "b", "y">>,
       <<"2", "0", "2", "5", ".", "3", "/", "*">> >>

Unset == "<None>"

Digits == {"0", "1", "2", "3", "4", "5", "6", "7", "8", "9"}

N_next == <<"n", "e", "x", "t">>

N_base == <<"b", "a", "s", "e">>

\* version_dir.name == "next" or re.fullmatch(r"20\d\d\.\d", version_dir.name)
IsVersionDir(name) ==
    \/ name = N_next
    \/ /\ Len(name) = 6
       /\ name[1] = "2"
       /\ name[2] = "0"
       /\ name[3] \in Digits
       /\ name[4] \in Digits
       /\ name[5] = "."
       /\ name[6] \in Digits

RECURSIVE FnMatch(_, _)
\* fnmatch(name, pat) for patterns of literals, "*" and "?"
FnMatch(name, pat) ==
    IF pat = <<>> THEN name = <<>>
    ELSE IF pat[1] = "*"
    THEN FnMatch(name, Tail(pat)) \/ (name # <<>> /\ FnMatch(Tail(name), pat))
    ELSE /\ name # <<>>
         /\ (pat[1] = "?" \/ pat[1] = name[1])
         /\ FnMatch(Tail(name), Tail(pat))

\* f"{version_dir.name}/{product_dir.name}"
Key(version, product) == version \o <<"/">> \o product

\* a slip: the exclusion test is made on the product name alone
IsExcludedByProductName(version, product) ==
    \E k \in 1..Len(EXCLUDE_PATTERNS) : FnMatch(product, EXCLUDE_PATTERNS[k])

\* any(fnmatch(key, pattern) for pattern in EXCLUDE_PATTERNS)
IsExcluded(version, product) ==
    \E k \in 1..Len(EXCLUDE_PATTERNS) : FnMatch(Key(version, product), EXCLUDE_PATTERNS[k])

\* what git diff --exit-code can return: no difference, difference, failure
DiffReturnCodes == {0, 1, 128}

\* a slip: the two answers of the diff tool are taken for each other
ChangedInThisPrInverted(returncode) ==
    IF returncode = 0 THEN "True"
    ELSE IF returncode = 1 THEN "False"
    ELSE "raise"

\* a slip: every failure of the diff tool is taken for "unchanged"
ChangedInThisPrLenient(returncode) ==
    IF returncode = 1 THEN "True" ELSE "False"

\* changed_in_this_pr, from the return code of the git diff it ran
ChangedInThisPr(returncode) ==
    IF returncode = 0 THEN "False"
    ELSE IF returncode = 1 THEN "True"
    ELSE "raise"

\* f"origin/{TARGET_BRANCH}..{head}": a None head is formatted as "None"
DiffRange(target, head) ==
    [base |-> target, head |-> IF head = Unset THEN "None" ELSE head]

\* f"{version_dir.name}/{product_dir.name}/Dockerfile"
DockerfilePath(version, product) ==
    Key(version, product) \o <<"/", "D", "o", "c", "k", "e", "r", "f", "i", "l", "e">>

Entry(version, product, platform) ==
    [version |-> version, linter |-> product,
     platform |-> platform, runner |-> RUNNERS[platform]]

\* a slip: only the first platform is emitted
EntriesFirstPlatform(version, product) == <<Entry(version, product, PLATFORMS[1])>>

\* for platform in PLATFORMS: result.append({...})
Entries(version, product) ==
    [k \in 1..Len(PLATFORMS) |-> Entry(version, product, PLATFORMS[k])]

NoDir == <<>>

NotEmitted == [emitted |-> FALSE, matrix |-> <<>>]

\* the outer loop takes the next entry of the working directory
NextVersionDir ==
    /\ sel_pc = "scan"
    /\ version_dir = NoDir
    /\ \E d \in todo_versions :
         /\ todo_versions' = todo_versions \ {d}
         /\ IF IsVersionDir(d)
            THEN version_dir' = d /\ todo_products' = tree[d]
            ELSE UNCHANGED <<version_dir, todo_products>>
    /\ UNCHANGED <<envVars, result, diff_calls, endVars>>
    /\ UNCHANGED dockerfilesPyVars

\* the inner loop is over
EndVersionDir ==
    /\ sel_pc = "scan"
    /\ version_dir # NoDir
    /\ todo_products = {}
    /\ version_dir' = NoDir
    /\ UNCHANGED <<envVars, todo_versions, todo_products, result, diff_calls, endVars>>
    /\ UNCHANGED dockerfilesPyVars

\* one iteration of the inner loop
NextProductDir ==
    /\ sel_pc = "scan"
    /\ version_dir # NoDir
    /\ \E p \in todo_products, returncode \in DiffReturnCodes :
         /\ todo_products' = todo_products \ {p}
         /\ IF \/ p = N_base
               \/ IsExcluded(version_dir, p)
               \/ <<version_dir, p>> \notin dockerfiles
            THEN UNCHANGED <<result, diff_calls, endVars>>
            ELSE IF target_branch = Unset
            THEN /\ result' = result \o Entries(version_dir, p)
                 /\ UNCHANGED <<diff_calls, endVars>>
            ELSE LET call == [range |-> DiffRange(target_branch, head_sha),
                              path |-> DockerfilePath(version_dir, p),
                              returncode |-> returncode]
                     changed == ChangedInThisPr(returncode)
                 IN /\ diff_calls' = diff_calls \cup {call}
                    /\ IF changed = "raise"
                       THEN /\ sel_pc' = "exit"
                            /\ sel_exit_code' = 1
                            /\ sel_uncaught' = "CalledProcessError"
                            /\ UNCHANGED <<result, stdout, stderr>>
                       ELSE /\ result' = IF changed = "True"
                                         THEN result \o Entries(version_dir, p)
                                         ELSE result
                            /\ UNCHANGED endVars
    /\ UNCHANGED <<envVars, todo_versions, version_dir>>
    /\ UNCHANGED dockerfilesPyVars

\* json.dump(result, sys.stdout), json.dump(result, sys.stderr)
Emit ==
    /\ sel_pc = "scan"
    /\ version_dir = NoDir
    /\ todo_versions = {}
    /\ stdout' = [emitted |-> TRUE, matrix |-> result]
    /\ stderr' = [emitted |-> TRUE, matrix |-> result]
    /\ sel_pc' = "exit"
    /\ sel_exit_code' = 0
    /\ UNCHANGED <<envVars, scanVars, result, diff_calls, sel_uncaught>>
    /\ UNCHANGED dockerfilesPyVars

(***************************************************************************)
(* Working directories and environments the selector is run in             *)
(***************************************************************************)
MaxVersionDirs == 2

MaxProductDirs == 2

TopNames ==
    { N_next,
      <<"2", "0", "2", "4", ".", "1">>,
      <<"2", "0", "2", "3", ".", "2">>,
      <<"2", "0", "2", "3", ".", "3">>,
      <<"2", "0", "2", "4", ".", "1", "0">> }

ProductNames ==
    { N_base, <<"r", "u", "b", "y">>, <<"r", "u", "s", "t">>, <<"c", "p", "p">> }

\* the Matrix Selector is not part of the run
SelectorIdle ==
    /\ target_branch = Unset
    /\ head_sha = Unset
    /\ tree = <<>>
    /\ dockerfiles = {}
    /\ todo_versions = {}
    /\ version_dir = NoDir
    /\ todo_products = {}
    /\ result = <<>>
    /\ diff_calls = {}
    /\ sel_pc = "idle"
    /\ sel_exit_code = 0
    /\ sel_uncaught = "none"
    /\ stdout = NotEmitted
    /\ stderr = NotEmitted

(***************************************************************************)
(* dockerfiles.py: substitute_from_directives                               *)
(***************************************************************************)
FragNames == {<<"a">>, <<"b">>, <<"c">>}

\* os.path.isfile(os.path.join(base_dir, f"{identifier}.Dockerfile"))
IsFile(fs, identifier) == identifier \in DOMAIN fs

Ok(text) == [kind |-> "ok", text |-> text]

Raised(exc) == [kind |-> exc, text |-> <<>>]

RECURSIVE SubstituteLines(_, _, _, _, _, _)
RECURSIVE SubstituteFromDirectives(_, _, _, _)

\* a slip: the included file is pasted as it is, its own directives unresolved
IncludeFragmentUnresolved(identifier, fs, unread, depth) == Ok(fs[identifier])

\* the recursive call for one directive line whose file exists and opens
IncludeFragment(identifier, fs, unread, depth) ==
    SubstituteFromDirectives(fs[identifier], fs, unread, depth + 1)

\* the for loop over lines[k..]; an exception raised in a recursive call
\* leaves the loop at once
SubstituteLines(lines, k, new_lines, fs, unread, depth) ==
    IF k > Len(lines) THEN Ok(JoinLines(new_lines))
    ELSE LET line == lines[k]
             identifier == PatternMatch(line)
         IN IF identifier # NoMatch /\ IsFile(fs, identifier)
            THEN IF identifier \in unread
                 THEN \* except OSError: log, keep the line
                      SubstituteLines(lines, k + 1, Append(new_lines, line),
                                      fs, unread, depth)
                 ELSE LET sub == IncludeFragment(identifier, fs, unread, depth)
                      IN IF sub.kind # "ok" THEN sub
                         ELSE SubstituteLines(lines, k + 1,
                                              Append(new_lines, RStrip(sub.text)),
                                              fs, unread, depth)
            ELSE SubstituteLines(lines, k + 1, Append(new_lines, line),
                                 fs, unread, depth)

\* depth is the number of nested activations of the function; the
\* interpreter raises RecursionError when it passes its recursion limit
SubstituteFromDirectives(content, fs, unread, depth) ==
    IF depth > RecursionLimit THEN Raised("RecursionError")
    ELSE SubstituteLines(SplitLines(content), 1, <<>>, fs, unread, depth)

(***************************************************************************)
(* Fragment directories the resolution is checked on                       *)
(***************************************************************************)
Str_FROM == <<"F", "R", "O", "M">>

LineSet == { Str_FROM \o <<" ">> \o n : n \in FragNames } \cup { <<"R", "U", "N">> }

OddContents ==
    { <<>>,
      <<NL>>,
      Str_FROM \o <<" ", "b", NL>>,
      Str_FROM \o <<" ", " ", "c", " ", "\t", NL, NL>>,
      Str_FROM \o <<" ", "a", ":", "1", NL, "R", "U", "N">>,
      <<"R", "U", "N", NL, " ", NL>> \o Str_FROM \o <<" ", "a", "-", "b">>,
      <<" ">> \o Str_FROM \o <<" ", "b">>,
      Str_FROM \o <<"b", NL>> \o Str_FROM \o <<" ", "c", " ", "x">> }

Contents ==
    { l : l \in LineSet }
    \cup { l1 \o <<NL>> \o l2 : l1 \in LineSet, l2 \in LineSet }
    \cup OddContents

LeafContents == { <<"R", "U", "N">>, Str_FROM \o <<" ", "a">>,
                  Str_FROM \o <<" ", "c", NL>> }

\* a file of the fragment directory whose name no directive can spell
ImageLikeNames == { <<"a", ":", "1">> }

\* directories holding any subset of the fragments, with or without a file
\* a:1.Dockerfile beside them
FragmentDirs ==
    UNION { { f @@ [n \in O |-> <<"R", "U", "N">>] :
                f \in { g \in [D -> Contents] :
                          <<"c">> \in D => g[<<"c">>] \in LeafContents } }
            : D \in SUBSET FragNames, O \in SUBSET ImageLikeNames }

NoRequest == <<>>

Pending == [kind |-> "pending", text |-> <<>>]

(***************************************************************************)
(* dockerfiles.py: generate_variant_dockerfile, write_dockerfile, main      *)
(***************************************************************************)
NoFrom == <<>>

\* data.get("from", variant)
BaseSource(v) == IF v.from = NoFrom THEN v.name ELSE v.from

\* variant.split("-")[0]
ShortName(name) ==
    LET k == IndexOf(name, "-", 1)
    IN IF k = 0 THEN name ELSE SubSeq(name, 1, k - 1)

\* template.render(...): the rendering engine is a black box; the snippet
\* shows which template was used and the variables it was given
Render(third, name) ==
    (IF third THEN <<"T">> ELSE <<"I">>) \o <<" ">> \o ShortName(name) \o <<" ">> \o name

\* returns [kind, text, logged]; text <<>> is the empty string of the skip
GenerateVariantDockerfile(v, fs, unread) ==
    LET base_source == BaseSource(v)
    IN IF ~IsFile(fs, base_source)
       THEN [kind |-> "ok", text |-> <<>>,
             logged |-> {[level |-> "warning", event |-> "skipping", variant |-> v.name]}]
       ELSE IF base_source \in unread
       THEN [kind |-> "ok", text |-> <<>>,
             logged |-> {[level |-> "error", event |-> "base", variant |-> v.name]}]
       ELSE LET processed == SubstituteFromDirectives(fs[base_source], fs, unread, 1)
            IN IF processed.kind # "ok"
               THEN [kind |-> processed.kind, text |-> <<>>, logged |-> {}]
               ELSE [kind |-> "ok",
                     text |-> RStrip(processed.text) \o <<NL, NL>> \o Render(v.third, v.name),
                     logged |-> {}]

\* the generated_disclaimer line
Disclaimer == <<"#">>

WithDisclaimer(dockerfile_content) == Disclaimer \o <<NL, NL>> \o dockerfile_content

\* a slip: the file is opened with mode "a", the text goes after what is there
PutFileAppend(fn, k, text) ==
    [x \in DOMAIN fn \cup {k} |->
        IF x # k THEN fn[x] ELSE IF k \in DOMAIN fn THEN fn[k] \o text ELSE text]

\* open(path, "w") and write(text): the file holds text and nothing else
PutFile(fn, k, text) == [x \in DOMAIN fn \cup {k} |-> IF x = k THEN text ELSE fn[x]]

\* what the file system can answer to os.makedirs and to open/write
MakedirsAnswers == {"ok", "OSError"}

WriteAnswers == {"ok", "open fails", "write fails"}

\* a slip: the empty content of a skipped variant is written like any other
WriteDockerfileUnguarded(name, dockerfile_content, dirs, outs, mk, wr) ==
    IF mk = "OSError"
    THEN [kind |-> "OSError", dirs |-> dirs, outs |-> outs, logged |-> {}]
    ELSE [kind |-> "ok", dirs |-> dirs \cup {name},
          outs |-> PutFile(outs, name, WithDisclaimer(dockerfile_content)),
          logged |-> {[level |-> "info", event |-> "generated", variant |-> name]}]

\* write_dockerfile: returns
\* [kind, dirs, outs, logged] for the answers mk and wr of the file system
WriteDockerfile(name, dockerfile_content, dirs, outs, mk, wr) ==
    IF dockerfile_content = <<>>
    THEN [kind |-> "ok", dirs |-> dirs, outs |-> outs, logged |-> {}]
    ELSE IF mk = "OSError"
    THEN \* os.makedirs is outside the try
         [kind |-> "OSError", dirs |-> dirs, outs |-> outs, logged |-> {}]
    ELSE IF wr = "ok"
    THEN [kind |-> "ok", dirs |-> dirs \cup {name},
          outs |-> PutFile(outs, name, WithDisclaimer(dockerfile_content)),
          logged |-> {[level |-> "info", event |-> "generated", variant |-> name]}]
    ELSE [kind |-> "ok", dirs |-> dirs \cup {name},
          outs |-> IF wr = "write fails" THEN PutFile(outs, name, <<>>) ELSE outs,
          logged |-> {[level |-> "error", event |-> "writing", variant |-> name]}]

\* sys.exit(1) after logger.error
ExitWithError(event) ==
    /\ pc' = "exit"
    /\ exit_code' = 1
    /\ log' = log \cup {[level |-> "error", event |-> event, variant |-> <<>>]}
    /\ UNCHANGED <<variants, idx, uncaught>>

ValidateReleaseDir ==
    /\ pc = "validate_release_dir"
    /\ IF ~release_dir_ok
       THEN ExitWithError("release dir")
       ELSE /\ pc' = "load_variants"
            /\ UNCHANGED <<variants, idx, exit_code, uncaught, log>>
    /\ UNCHANGED <<selectorVars, fragmentVars, resolveVars, releaseVars, invocationVars,
                   outputVars>>

LoadVariants ==
    /\ pc = "load_variants"
    /\ IF public_json.state = "ok"
       THEN /\ variants' = public_json.variants
            /\ pc' = "load_intellij"
            /\ UNCHANGED <<idx, exit_code, uncaught, log>>
       ELSE ExitWithError(public_json.state)
    /\ UNCHANGED <<selectorVars, fragmentVars, resolveVars, releaseVars, invocationVars,
                   outputVars>>

\* a slip: the error is logged and the run goes on without the template
LoadTemplateLenient(name, then) ==
    /\ pc = "load_" \o name
    /\ pc' = then
    /\ log' = IF name \in templates THEN log
              ELSE log \cup {[level |-> "error", event |-> "template", variant |-> <<>>]}
    /\ UNCHANGED <<variants, idx, exit_code, uncaught>>
    /\ UNCHANGED <<selectorVars, fragmentVars, resolveVars, releaseVars, invocationVars,
                   outputVars>>

LoadTemplate(name, then) ==
    /\ pc = "load_" \o name
    /\ IF name \in templates
       THEN /\ pc' = then
            /\ UNCHANGED <<variants, idx, exit_code, uncaught, log>>
       ELSE ExitWithError("template")
    /\ UNCHANGED <<selectorVars, fragmentVars, resolveVars, releaseVars, invocationVars,
                   outputVars>>

\* one iteration of the for loop of main()
ProcessVariant ==
    /\ pc = "loop"
    /\ idx <= Len(variants)
    /\ \E mk \in MakedirsAnswers, wr \in WriteAnswers :
         LET v == variants[idx]
             gen == GenerateVariantDockerfile(v, files, unreadable)
             wrt == WriteDockerfile(v.name, gen.text, out_dirs, out_files, mk, wr)
         IN IF gen.kind # "ok"
            THEN /\ pc' = "exit"
                 /\ exit_code' = 1
                 /\ uncaught' = gen.kind
                 /\ UNCHANGED <<idx, log, outputVars>>
            ELSE IF wrt.kind # "ok"
            THEN /\ pc' = "exit"
                 /\ exit_code' = 1
                 /\ uncaught' = wrt.kind
                 /\ log' = log \cup gen.logged
                 /\ UNCHANGED <<idx, outputVars>>
            ELSE /\ idx' = idx + 1
                 /\ log' = log \cup gen.logged \cup wrt.logged
                 /\ out_dirs' = wrt.dirs
                 /\ out_files' = wrt.outs
                 /\ UNCHANGED <<pc, exit_code, uncaught>>
    /\ UNCHANGED <<selectorVars, fragmentVars, resolveVars, releaseVars, invocationVars,
                   variants>>

\* main() returns after the last variant
Finish ==
    /\ pc = "loop"
    /\ idx > Len(variants)
    /\ pc' = "exit"
    /\ exit_code' = 0
    /\ UNCHANGED <<selectorVars, fragmentVars, resolveVars, releaseVars, invocationVars,
                   outputVars,
                   variants, idx, uncaught, log>>

\* nothing is known of an invocation that has not ended
NoRun == [dirs |-> {}, files |-> <<>>, log |-> {}, uncaught |-> "none"]

\* the script is invoked again on the release directory the first invocation
\* left: main() starts over, the files on disk stay
Rerun ==
    /\ pc = "exit"
    /\ run = 1
    /\ run' = 2
    /\ first_run' = [dirs |-> out_dirs, files |-> out_files,
                     log |-> log, uncaught |-> uncaught]
    /\ pc' = "validate_release_dir"
    /\ variants' = <<>>
    /\ idx' = 1
    /\ exit_code' = 0
    /\ uncaught' = "none"
    /\ log' = {}
    /\ UNCHANGED <<selectorVars, fragmentVars, resolveVars, releaseVars, outputVars>>

NextCompiler ==
    \/ Rerun
    \/ ValidateReleaseDir
    \/ LoadVariants
    \/ LoadTemplate("intellij", "load_thirdparty")
    \/ LoadTemplate("thirdparty", "loop")
    \/ ProcessVariant
    \/ Finish

(***************************************************************************)
(* Release directories the compiler is run on                              *)
(***************************************************************************)
MaxVariants == 3

Variant(name, from, third) == [name |-> name, from |-> from, third |-> third]

VariantPool ==
    { Variant(<<"a">>, NoFrom, FALSE),
      Variant(<<"b", "-", "x">>, <<"b">>, TRUE),
      Variant(<<"z">>, NoFrom, FALSE),
      Variant(<<"y">>, <<"c">>, TRUE) }

RECURSIVE SeqsOver(_, _)
\* the sequences of at most n distinct elements of S
SeqsOver(S, n) ==
    IF n = 0 THEN {<<>>}
    ELSE {<<>>} \cup { <<x>> \o t : x \in S, t \in SeqsOver(S, n - 1) }

Distinct(seq) == \A j, k \in 1..Len(seq) : j # k => seq[j] # seq[k]

Manifests == { m \in SeqsOver(VariantPool, MaxVariants) : Distinct(m) }

PublicJsons ==
    { [state |-> st, variants |-> <<>>] : st \in {"missing", "unreadable", "invalid"} }
    \cup { [state |-> "ok", variants |-> m] : m \in Manifests }

Dir(a, b, c) == (<<"a">> :> a) @@ (<<"b">> :> b) @@ (<<"c">> :> c)

CompilerDirs ==
    { Dir(Str_FROM \o <<" ", "b">>, Str_FROM \o <<" ", "c", NL>>, <<"R", "U", "N">>),
      Dir(Str_FROM \o <<" ", "b">>, Str_FROM \o <<" ", "a">>, <<"R", "U", "N">>),
      (<<"a">> :> <<"R", "U", "N", NL>>) @@ (<<"c">> :> Str_FROM \o <<" ", "a">>),
      [x \in {} |-> <<>>] }

StaleOutputs == [n \in { v.name : v \in VariantPool } |-> <<"o", "l", "d">>]

InitCompiler ==
    /\ request = NoRequest
    /\ outcome = Pending
    /\ SelectorIdle
    /\ release_dir_ok \in BOOLEAN
    /\ IF release_dir_ok
       THEN /\ public_json \in PublicJsons
            /\ templates \in SUBSET {"intellij", "thirdparty"}
            /\ files \in CompilerDirs
            /\ unreadable \in { {}, {<<"b">>} }
            /\ out_files \in { [x \in {} |-> <<>>], StaleOutputs }
       ELSE /\ public_json = [state |-> "missing", variants |-> <<>>]
            /\ templates = {}
            /\ files = [x \in {} |-> <<>>]
            /\ unreadable = {}
            /\ out_files = [x \in {} |-> <<>>]
    /\ out_dirs = DOMAIN out_files
    /\ pc = "validate_release_dir"
    /\ variants = <<>>
    /\ idx = 1
    /\ exit_code = 0
    /\ uncaught = "none"
    /\ log = {}
    /\ run = 1
    /\ first_run = NoRun

SpecCompiler == InitCompiler /\ [][NextCompiler]_vars

\* the Descriptor Compiler is not part of the run
CompilerIdle ==
    /\ release_dir_ok = FALSE
    /\ public_json = [state |-> "missing", variants |-> <<>>]
    /\ templates = {}
    /\ out_dirs = {}
    /\ out_files = <<>>
    /\ pc = "idle"
    /\ variants = <<>>
    /\ idx = 1
    /\ exit_code = 0
    /\ uncaught = "none"
    /\ log = {}
    /\ run = 1
    /\ first_run = NoRun

\* no fragment is being resolved
FragmentsIdle ==
    /\ files = [x \in {} |-> <<>>]
    /\ unreadable = {}
    /\ request = NoRequest
    /\ outcome = Pending

InitSelector ==
    /\ target_branch \in {Unset, "main"}
    /\ head_sha \in {Unset, "4f2a"}
    /\ \E tops \in SUBSET TopNames, prods \in SUBSET ProductNames :
         /\ Cardinality(tops) <= MaxVersionDirs
         /\ Cardinality(prods) <= MaxProductDirs
         /\ tree = [t \in tops |-> prods]
         /\ todo_versions = tops
         /\ \E with \in SUBSET prods : dockerfiles = tops \X with
    /\ version_dir = NoDir
    /\ todo_products = {}
    /\ result = <<>>
    /\ diff_calls = {}
    /\ sel_pc = "scan"
    /\ sel_exit_code = 0
    /\ sel_uncaught = "none"
    /\ stdout = NotEmitted
    /\ stderr = NotEmitted
    /\ CompilerIdle
    /\ FragmentsIdle

NextSelector ==
    \/ NextVersionDir
    \/ EndVersionDir
    \/ NextProductDir
    \/ Emit

InitResolve ==
    /\ files \in FragmentDirs
    /\ unreadable \in { {}, {<<"b">>} }
    /\ request = NoRequest
    /\ outcome = Pending
    /\ CompilerIdle
    /\ SelectorIdle

\* generate_variant_dockerfile's read of a base fragment and its call of
\* substitute_from_directives on the content
Resolve(f) ==
    /\ request = NoRequest
    /\ IsFile(files, f)
    /\ f \notin unreadable
    /\ request' = f
    /\ outcome' = SubstituteFromDirectives(files[f], files, unreadable, 1)
    /\ UNCHANGED <<selectorVars, fragmentVars, compilerVars>>

NextResolve == \E f \in FragNames : Resolve(f)

SpecResolve == InitResolve /\ [][NextResolve]_vars

SpecSelector == InitSelector /\ [][NextSelector]_vars

(***************************************************************************)
(* The fragment graph, as the claims speak of it                           *)
(***************************************************************************)
Range(seq) == { seq[k] : k \in 1..Len(seq) }

\* the fragments that the directive lines of fragment g make the code open
Includes(g) ==
    { PatternMatch(l) : l \in Range(SplitLines(files[g])) }
        \cap (DOMAIN files \ unreadable)

RECURSIVE ReachableFrom(_)
ReachableFrom(S) ==
    LET T == S \cup UNION { Includes(g) : g \in S }
    IN IF T = S THEN S ELSE ReachableFrom(T)

\* resolution of f runs into a fragment that (transitively) includes itself
CyclicFrom(f) ==
    \E g \in ReachableFrom({f}) : g \in ReachableFrom(Includes(g))

Resolved == request # NoRequest

\* the lines of a text that are directives naming an existing fragment file
ResidualDirectives(text) ==
    { l \in Range(SplitLines(text)) : IsFile(files, PatternMatch(l)) }

LettersAndHyphen == {"F", "R", "O", "M", "U", "N", "a", "b", "c", "x", "-"}

Blanks == {" ", "\t"}

\* line is FROM, blanks, the identifier id, and nothing but blanks after it
IsDirectiveNaming(line, id) ==
    /\ Len(line) >= 5 + Len(id)
    /\ SubSeq(line, 1, 4) = <<"F", "R", "O", "M">>
    /\ \E p \in 6..(Len(line) - Len(id) + 1) :
         /\ \A i \in 5..(p - 1) : line[i] \in Blanks
         /\ SubSeq(line, p, p + Len(id) - 1) = id
         /\ \A i \in (p + Len(id))..Len(line) : line[i] \in Blanks

\* line is an inclusion directive for a fragment file that exists and opens
Replaced(line) ==
    \E id \in DOMAIN files \ unreadable :
        /\ \A i \in 1..Len(id) : id[i] \in LettersAndHyphen
        /\ IsDirectiveNaming(line, id)

RECURSIVE KeptLines(_)
\* the lines of a sequence of lines that are not replaced, in their order
KeptLines(lines) ==
    IF lines = <<>> THEN <<>>
    ELSE IF Replaced(lines[1]) THEN KeptLines(Tail(lines))
    ELSE <<lines[1]>> \o KeptLines(Tail(lines))

RECURSIVE Segments(_, _, _)
\* the pieces of text s between its line breaks, from position k on, the
\* piece begun at position b first: str.split("\n")
Segments(s, b, k) ==
    IF k > Len(s) THEN <<SubSeq(s, b, Len(s))>>
    ELSE IF s[k] = "\n" THEN <<SubSeq(s, b, k - 1)>> \o Segments(s, k + 1, k + 1)
    ELSE Segments(s, b, k + 1)

RECURSIVE IsSubsequence(_, _)
\* the elements of a occur in b, in the order of a
IsSubsequence(a, b) ==
    IF a = <<>> THEN TRUE
    ELSE IF b = <<>> THEN FALSE
    ELSE IF a[1] = b[1] THEN IsSubsequence(Tail(a), Tail(b))
    ELSE IsSubsequence(a, Tail(b))

\* C1: resolution of a fragment graph with a cycle on the active path stops
\* with a CyclicInheritanceError (naming the cycle) instead of recursing
\* until the interpreter gives up.
C1_CycleRaisesCyclicInheritanceError ==
    (Resolved /\ CyclicFrom(request)) => outcome.kind = "CyclicInheritanceError"

\* C2: on an acyclic fragment graph whose fragment files are all readable,
\* the resolved text has no line left that is a directive naming an existing
\* fragment, and the chain a -> b -> c resolves a to the content of c.
C2_NoResidualDirective ==
    (Resolved /\ ~CyclicFrom(request) /\ unreadable = {}) =>
        /\ outcome.kind = "ok"
        /\ ResidualDirectives(outcome.text) = {}
        /\ ( /\ request = <<"a">>
             /\ DOMAIN files = FragNames
             /\ files[<<"a">>] = Str_FROM \o <<" ", "b">>
             /\ files[<<"b">>] = Str_FROM \o <<" ", "c">>
             /\ files[<<"c">>] = <<"R", "U", "N">> )
           => outcome.text = <<"R", "U", "N">>

\* a chain of depth three was resolved, through two levels of inclusion
C2_Witness ==
    /\ request = <<"a">>
    /\ unreadable = {}
    /\ Includes(<<"a">>) = {<<"b">>}
    /\ Includes(<<"b">>) = {<<"c">>}
    /\ Includes(<<"c">>) = {}
    /\ outcome.kind = "ok"
    /\ outcome.text = files[<<"c">>]

(***************************************************************************)
(* The Descriptor Compiler run, as the claims speak of it                  *)
(***************************************************************************)
BaseMissing(v) == ~IsFile(files, BaseSource(v))

Logged(level, event, name) ==
    [level |-> level, event |-> event, variant |-> name] \in log

\* the Dockerfile of variant name was written by this run
Written(name) ==
    /\ Logged("info", "generated", name)
    /\ name \in out_dirs
    /\ name \in DOMAIN out_files
    /\ SubSeq(out_files[name], 1, Len(Disclaimer) + 2) = Disclaimer \o <<NL, NL>>

\* reading the base fragment or writing the output of the variant failed
OwnIOError(name) ==
    Logged("error", "base", name) \/ Logged("error", "writing", name)

AtVariant == pc = "loop" /\ idx <= Len(variants)

EndedNormally == pc = "exit" /\ exit_code = 0

\* the iteration for a variant without base fragment changes no output,
\* raises nothing and moves on to the next variant
SkipStepHarmless ==
    (AtVariant /\ BaseMissing(variants[idx])) =>
        /\ out_dirs' = out_dirs
        /\ out_files' = out_files
        /\ pc' = "loop"
        /\ idx' = idx + 1
        /\ uncaught' = "none"

\* no record of this run is about an output of a variant without base
SkippedUntouched ==
    \A k \in 1..Len(variants) :
        BaseMissing(variants[k]) =>
            /\ ~Logged("info", "generated", variants[k].name)
            /\ ~Logged("error", "writing", variants[k].name)
            /\ (k < idx => Logged("warning", "skipping", variants[k].name))

\* at the end of the loop every variant with a base fragment is written,
\* unless an I/O error of its own was logged
OthersWritten ==
    EndedNormally =>
        \A k \in 1..Len(variants) :
            ~BaseMissing(variants[k]) =>
                Written(variants[k].name) \/ OwnIOError(variants[k].name)

\* C3: a variant whose base fragment file does not exist gets no output
\* directory and no Dockerfile created or modified, and the variants whose
\* base fragment exists are still written, wherever the skipped one stands.
C3_UnknownBaseSkip ==
    /\ [](SkippedUntouched /\ OthersWritten)
    /\ [][SkipStepHarmless]_vars

\* a run that skipped its first and its last variant and wrote the middle one
C3_Witness ==
    /\ EndedNormally
    /\ Len(variants) = 3
    /\ BaseMissing(variants[1])
    /\ ~BaseMissing(variants[2])
    /\ Written(variants[2].name)
    /\ BaseMissing(variants[3])
    /\ Logged("warning", "skipping", variants[1].name)
    /\ Logged("warning", "skipping", variants[3].name)

\* the release directory has one of the fatal defects
FatalCondition ==
    \/ public_json.state # "ok"
    \/ templates # {"intellij", "thirdparty"}

\* C4: with the manifest missing or unparsable, or a trailer template
\* missing, the run never enters the loop over the variants, no directory is
\* created and no Dockerfile is written at any step, and it ends with exit
\* code 1.
C4_FatalBeforeAnyWrite ==
    /\ [](FatalCondition =>
            /\ pc # "loop"
            /\ \A r \in log : r.event \notin {"generated", "writing"}
            /\ (pc = "exit" => exit_code = 1 /\ uncaught = "none"))
    /\ [][FatalCondition => UNCHANGED outputVars]_vars

\* the run ended on a missing trailer template although the manifest had a
\* variant that could have been written
C4_Witness ==
    /\ pc = "exit"
    /\ exit_code = 1
    /\ public_json.state = "ok"
    /\ "intellij" \in templates
    /\ "thirdparty" \notin templates
    /\ \E k \in 1..Len(variants) : ~BaseMissing(variants[k])
    /\ Logged("error", "template", <<>>)

\* C5: an I/O error raised while creating a variant's output directory or
\* writing its Dockerfile never ends the run: no OSError leaves main().
C5_WriteErrorDoesNotAbort ==
    ~(pc = "exit" /\ uncaught = "OSError")

(***************************************************************************)
(* The Matrix Selector run, as the claims speak of it                      *)
(***************************************************************************)
RECURSIVE FirstStar(_, _)
\* position of the first "*" of pat at or after k, 0 when none
FirstStar(pat, k) ==
    IF k > Len(pat) THEN 0
    ELSE IF pat[k] = "*" THEN k
    ELSE FirstStar(pat, k + 1)

RECURSIVE GlobMatches(_, _)
\* shell-glob matching stated on the shape of the pattern: the text before
\* the first "*" is a prefix of the name, and the rest of the pattern
\* matches some suffix of what follows
GlobMatches(name, pat) ==
    LET star == FirstStar(pat, 1)
    IN IF star = 0 THEN name = pat
       ELSE /\ Len(name) >= star - 1
            /\ SubSeq(name, 1, star - 1) = SubSeq(pat, 1, star - 1)
            /\ \E j \in (star - 1)..Len(name) :
                 GlobMatches(SubSeq(name, j + 1, Len(name)),
                             SubSeq(pat, star + 1, Len(pat)))

\* the key <version>/<product> matches a pattern of the ruleset applied
KeyExcluded(version, product) ==
    \E pat \in Range(EXCLUDE_PATTERNS) : GlobMatches(Key(version, product), pat)

\* the directories found under the version directories
ProductDirs ==
    { d \in UNION { {<<v, p>> : p \in tree[v]} : v \in DOMAIN tree } :
        IsVersionDir(d[1]) }

\* the product directories that discovery and the exclusion filter let pass
Candidates ==
    { d \in ProductDirs :
        d[2] # N_base /\ d \in dockerfiles /\ ~KeyExcluded(d[1], d[2]) }

EntriesOf(matrix, d) ==
    { k \in 1..Len(matrix) : matrix[k].version = d[1] /\ matrix[k].linter = d[2] }

\* the matrix has one entry per platform for d, and no other entry for d
OncePerPlatform(matrix, d) ==
    /\ Cardinality(EntriesOf(matrix, d)) = 2
    /\ { matrix[k].platform : k \in EntriesOf(matrix, d) } = {"linux/amd64", "linux/arm64"}

CallsFor(d) == { c \in diff_calls : c.path = DockerfilePath(d[1], d[2]) }

PullRequestMode == target_branch # Unset

\* C6: in pull-request mode every candidate was put to the diff tool once;
\* one reported unchanged (0) has no entry in the emitted matrix, one
\* reported changed (1) has exactly two, for linux/amd64 and linux/arm64.
C6_PullRequestFilter ==
    (PullRequestMode /\ stdout.emitted) =>
        /\ stderr = stdout
        /\ \A d \in Candidates :
             /\ Cardinality(CallsFor(d)) = 1
             /\ \A c \in CallsFor(d) :
                  /\ c.returncode = 0 => EntriesOf(stdout.matrix, d) = {}
                  /\ c.returncode = 1 => OncePerPlatform(stdout.matrix, d)

\* a matrix emitted in pull-request mode with one candidate left out as
\* unchanged and another one listed as changed
C6_Witness ==
    /\ PullRequestMode
    /\ stdout.emitted
    /\ \E d, e \in Candidates :
         /\ \E c \in CallsFor(d) : c.returncode = 0
         /\ EntriesOf(stdout.matrix, d) = {}
         /\ \E c \in CallsFor(e) : c.returncode = 1
         /\ OncePerPlatform(stdout.matrix, e)

\* C7 as stated: without target ref, every directory under a version
\* directory that holds a Dockerfile and whose key matches no exclusion
\* pattern is in the matrix once per platform, and the diff tool is never run.
C7_EveryDockerfileDirListed ==
    /\ ~PullRequestMode => diff_calls = {}
    /\ (~PullRequestMode /\ stdout.emitted) =>
         \A d \in ProductDirs :
             (d \in dockerfiles /\ ~KeyExcluded(d[1], d[2])) =>
                 OncePerPlatform(stdout.matrix, d)

\* C7 amended: the same for every such directory not named "base".
C7_EveryProductListed ==
    /\ ~PullRequestMode => diff_calls = {}
    /\ (~PullRequestMode /\ stdout.emitted) =>
         /\ stderr = stdout
         /\ \A d \in ProductDirs :
              (d[2] # N_base /\ d \in dockerfiles /\ ~KeyExcluded(d[1], d[2])) =>
                  OncePerPlatform(stdout.matrix, d)

\* a full-rebuild matrix listing a product, from a tree whose base directory
\* holds a Dockerfile too and is left out
C7_Witness ==
    /\ ~PullRequestMode
    /\ stdout.emitted
    /\ \E d, b \in ProductDirs :
         /\ d \in Candidates
         /\ OncePerPlatform(stdout.matrix, d)
         /\ b[2] = N_base
         /\ b \in dockerfiles
         /\ EntriesOf(stdout.matrix, b) = {}

N_2024_1 == <<"2", "0", "2", "4", ".", "1">>

N_ruby == <<"r", "u", "b", "y">>

N_rust == <<"r", "u", "s", "t">>

\* C8: no entry of the matrix has a key matching a pattern of the ruleset,
\* in either mode, and a candidate whose key matches no pattern passes the
\* exclusion filter: it is listed (no target ref) or put to the diff tool.
C8_ExclusionFilter ==
    stdout.emitted =>
         /\ \A k \in 1..Len(stdout.matrix) :
              ~KeyExcluded(stdout.matrix[k].version, stdout.matrix[k].linter)
         /\ \A d \in ProductDirs :
              (d[2] # N_base /\ d \in dockerfiles /\ ~KeyExcluded(d[1], d[2])) =>
                  IF PullRequestMode THEN CallsFor(d) # {}
                  ELSE EntriesOf(stdout.matrix, d) # {}
         /\ \A d \in ProductDirs :
              d[2] = N_ruby => EntriesOf(stdout.matrix, d) = {}

\* 2024.1/ruby and 2024.1/rust both hold a Dockerfile; the emitted matrix
\* lists rust and not ruby
C8_Witness ==
    /\ stdout.emitted
    /\ {<<N_2024_1, N_ruby>>, <<N_2024_1, N_rust>>} \subseteq (ProductDirs \cap dockerfiles)
    /\ EntriesOf(stdout.matrix, <<N_2024_1, N_ruby>>) = {}
    /\ OncePerPlatform(stdout.matrix, <<N_2024_1, N_rust>>)

DiffFailed == \E c \in diff_calls : c.returncode \notin {0, 1}

\* C9: once the diff tool has returned something other than 0 or 1, the
\* script has ended with an uncaught CalledProcessError and exit status 1,
\* nothing was written to stdout or stderr, and the candidate has no entry.
C9_DiffFailureIsFatal ==
    DiffFailed =>
        /\ sel_pc = "exit"
        /\ sel_exit_code = 1
        /\ sel_uncaught = "CalledProcessError"
        /\ ~stdout.emitted
        /\ ~stderr.emitted
        /\ \A c \in diff_calls : c.returncode \notin {0, 1} =>
             \A k \in 1..Len(result) :
                 DockerfilePath(result[k].version, result[k].linter) # c.path

\* the diff tool failed after an earlier candidate had been added to the
\* list: the partial list is not emitted
C9_Witness ==
    /\ DiffFailed
    /\ result # <<>>
    /\ sel_pc = "exit"
    /\ ~stdout.emitted

\* C10: with the target ref present and the current revision absent, the
\* selector fails before it runs the diff tool and emits no matrix.
C10_MissingRevisionFailsLoudly ==
    (PullRequestMode /\ head_sha = Unset) =>
        /\ diff_calls = {}
        /\ ~stdout.emitted
        /\ (sel_pc = "exit" => sel_exit_code # 0)

\* code points of the characters of the directory names
CharCode ==
    ("." :> 46) @@ ("0" :> 48) @@ ("1" :> 49) @@ ("2" :> 50) @@ ("3" :> 51)
    @@ ("4" :> 52) @@ ("5" :> 53) @@ ("a" :> 97) @@ ("b" :> 98) @@ ("c" :> 99)
    @@ ("e" :> 101) @@ ("n" :> 110) @@ ("p" :> 112) @@ ("r" :> 114)
    @@ ("s" :> 115) @@ ("t" :> 116) @@ ("u" :> 117) @@ ("x" :> 120) @@ ("y" :> 121)

RECURSIVE StrLess(_, _)
\* a sorts before b as strings
StrLess(a, b) ==
    IF b = <<>> THEN FALSE
    ELSE IF a = <<>> THEN TRUE
    ELSE IF a[1] # b[1] THEN CharCode[a[1]] < CharCode[b[1]]
    ELSE StrLess(Tail(a), Tail(b))

PlatformRank == ("linux/amd64" :> 1) @@ ("linux/arm64" :> 2)

\* entry e does not sort after entry f by (version, product, platform)
EntryLeq(e, f) ==
    \/ StrLess(e.version, f.version)
    \/ /\ e.version = f.version
       /\ \/ StrLess(e.linter, f.linter)
          \/ /\ e.linter = f.linter
             /\ PlatformRank[e.platform] <= PlatformRank[f.platform]

\* C11: the emitted matrix is sorted by (version, product, platform), so
\* that it is the same list whatever order the directories were iterated in.
C11_MatrixSorted ==
    stdout.emitted =>
        \A k \in 1..(Len(stdout.matrix) - 1) :
            EntryLeq(stdout.matrix[k], stdout.matrix[k + 1])

N_2023_2 == <<"2", "0", "2", "3", ".", "2">>

N_2023_3 == <<"2", "0", "2", "3", ".", "3">>

N_cpp == <<"c", "p", "p">>

\* C14: "2023.2/*" and "2023.3/cpp" are each a pattern of the ruleset
\* applied: no entry of an emitted matrix has version 2023.2, and none is
\* linter cpp of version 2023.3.
C14_WrittenPatternsApplied ==
    stdout.emitted =>
        \A k \in 1..Len(stdout.matrix) :
            /\ stdout.matrix[k].version # N_2023_2
            /\ ~(stdout.matrix[k].version = N_2023_3 /\ stdout.matrix[k].linter = N_cpp)

\* C13: the lines of the input that are not replaced (no directive, or a
\* directive whose identifier has no fragment file) are lines of the output,
\* unchanged and in their order; a FROM line with a digit or ":" stays even
\* when a file of that name exists; resolution without a cycle raises nothing.
C13_OtherLinesPassThrough ==
    Resolved =>
        /\ ~CyclicFrom(request) => outcome.kind = "ok"
        /\ outcome.kind = "ok" =>
             IsSubsequence(KeptLines(SplitLines(files[request])),
                           Segments(outcome.text, 1, 1))

\* a fragment with the line FROM a:1 was resolved beside a file a:1.Dockerfile
\* and came out as it went in
C13_Witness ==
    /\ Resolved
    /\ outcome.kind = "ok"
    /\ <<"a", ":", "1">> \in DOMAIN files
    /\ files[request] = <<"F", "R", "O", "M", " ", "a", ":", "1", "\n", "R", "U", "N">>
    /\ outcome.text = files[request]

\* the file system refused nothing to a run with these records and this end
NoWriteFault(records, exc) ==
    /\ exc # "OSError"
    /\ \A r \in records : r.event # "writing"

\* the second invocation has ended, and the file system refused neither
\* invocation the creation of a directory or the writing of a file
BothRunsEnded ==
    /\ run = 2
    /\ pc = "exit"
    /\ NoWriteFault(first_run.log, first_run.uncaught)
    /\ NoWriteFault(log, uncaught)

\* C12: after a second run on unchanged manifest, fragments and templates the
\* Dockerfiles are those of the first run, byte for byte, none created and
\* none removed, also when outputs were there before the first run.
C12_SecondRunChangesNothing ==
    BothRunsEnded =>
        /\ out_dirs = first_run.dirs
        /\ DOMAIN out_files = DOMAIN first_run.files
        /\ \A n \in DOMAIN out_files : out_files[n] = first_run.files[n]
        /\ log = first_run.log
        /\ uncaught = first_run.uncaught

\* both runs wrote the Dockerfile of a variant over an older one and left
\* the older Dockerfile of another name alone
C12_Witness ==
    /\ BothRunsEnded
    /\ exit_code = 0
    /\ \E k \in 1..Len(variants) :
         /\ [level |-> "info", event |-> "generated", variant |-> variants[k].name]
                \in log \cap first_run.log
         /\ out_files[variants[k].name] # StaleOutputs[variants[k].name]
    /\ \E n \in DOMAIN out_files : out_files[n] = StaleOutputs[n]

====
